---- MODULE Spec2Model ----
(***************************************************************************)
(* paper/paper.h is the whole repository: an include guard, one standard   *)
(* include, a forward declaration of RDKit::ROMol and the prototype of     *)
(* paper.  The model is the translation phase that reads the header line   *)
(* by line inside one translation unit that includes it repeatedly: the    *)
(* state is the reader's position, the conditional-group state, the macro  *)
(* table, the open namespaces and the declarations seen so far.            *)
(***************************************************************************)
EXTENDS Integers, Sequences, FiniteSets, TLC

\* Number of `#include "paper.h"` directives the translation unit may hold.
MaxIncludes == 8

----------------------------------------------------------------------------
\* The twelve lines of paper.h, one definition per source line.

\* The guard tests a macro other than the one line 2 defines.
Line1_GuardTypo == [kind |-> "ifndef", arg |-> "PAPER_HH"]

Line1 == [kind |-> "ifndef", arg |-> "PAPER_H"]

Line2 == [kind |-> "define", arg |-> "PAPER_H"]

Line3 == [kind |-> "blank", arg |-> ""]

Line4 == [kind |-> "include", arg |-> "<list>"]

Line5 == [kind |-> "blank", arg |-> ""]

Line6 == [kind |-> "namespace", arg |-> "RDKit"]

\* `class ROMol;` : a declaration without a member list (incomplete type).
Line7 == [kind |-> "class", arg |-> [name |-> "ROMol", complete |-> FALSE]]

Line8 == [kind |-> "close", arg |-> ""]

Line9 == [kind |-> "blank", arg |-> ""]

\* The prototype without its extern "C" linkage specification.
Line10_NoExternC ==
  [kind |-> "function",
   arg  |-> [name    |-> "paper",
             linkage |-> "C++",
             ret     |-> "float**",
             params  |-> << [name |-> "gpuID", type |-> "int",
                             class |-> <<>>, indirection |-> 0],
                            [name |-> "molecules",
                             type |-> "std::list<RDKit::ROMol*>&",
                             class |-> <<"RDKit", "ROMol">>,
                             indirection |-> 1] >>,
             body    |-> FALSE]]

\* The prototype with the list holding molecules by value (the `*` dropped).
Line10_ByValue ==
  [kind |-> "function",
   arg  |-> [name    |-> "paper",
             linkage |-> "C",
             ret     |-> "float**",
             params  |-> << [name |-> "gpuID", type |-> "int",
                             class |-> <<>>, indirection |-> 0],
                            [name |-> "molecules",
                             type |-> "std::list<RDKit::ROMol>&",
                             class |-> <<"RDKit", "ROMol">>,
                             indirection |-> 0] >>,
             body    |-> FALSE]]

\* extern "C" float** paper(int gpuID, std::list<RDKit::ROMol*>& molecules);
\* A parameter names the class it mentions (<<>> for none) and the number of
\* pointer levels between the parameter's type and that class.
Line10 ==
  [kind |-> "function",
   arg  |-> [name    |-> "paper",
             linkage |-> "C",
             ret     |-> "float**",
             params  |-> << [name |-> "gpuID", type |-> "int",
                             class |-> <<>>, indirection |-> 0],
                            [name |-> "molecules",
                             type |-> "std::list<RDKit::ROMol*>&",
                             class |-> <<"RDKit", "ROMol">>,
                             indirection |-> 1] >>,
             body    |-> FALSE]]

Line11 == [kind |-> "blank", arg |-> ""]

Line12 == [kind |-> "endif", arg |-> "PAPER_H"]

Header ==
  << Line1, Line2, Line3, Line4, Line5, Line6,
     Line7, Line8, Line9, Line10, Line11, Line12 >>

----------------------------------------------------------------------------
VARIABLES
  pc,          \* 0: in the including file; 1..Len(Header)+1: next header line
  n,           \* inclusions of paper.h started so far
  skipping,    \* TRUE inside a conditional group whose condition was false
  macros,      \* names currently defined as macros
  stdHeaders,  \* standard headers pulled in
  scope,       \* stack of open namespaces
  out          \* declarations contributed to the translation unit, in order

vars == <<pc, n, skipping, macros, stdHeaders, scope, out>>

Init ==
  /\ pc = 0
  /\ n = 0
  /\ skipping = FALSE
  /\ macros = {}
  /\ stdHeaders = {}
  /\ scope = <<>>
  /\ out = <<>>

InHeader == pc \in 1..Len(Header)

Cur == Header[pc]

\* The including file reaches a `#include "paper.h"` directive.
IncludePaperH ==
  /\ pc = 0
  /\ n < MaxIncludes
  /\ pc' = 1
  /\ n' = n + 1
  /\ UNCHANGED <<skipping, macros, stdHeaders, scope, out>>

\* #ifndef M : the group is read iff M is not defined.
Ifndef ==
  /\ InHeader /\ ~skipping
  /\ Cur.kind = "ifndef"
  /\ skipping' = (Cur.arg \in macros)
  /\ pc' = pc + 1
  /\ UNCHANGED <<n, macros, stdHeaders, scope, out>>

\* #define M
Define ==
  /\ InHeader /\ ~skipping
  /\ Cur.kind = "define"
  /\ macros' = macros \cup {Cur.arg}
  /\ pc' = pc + 1
  /\ UNCHANGED <<n, skipping, stdHeaders, scope, out>>

\* #include <list>
IncludeStd ==
  /\ InHeader /\ ~skipping
  /\ Cur.kind = "include"
  /\ stdHeaders' = stdHeaders \cup {Cur.arg}
  /\ pc' = pc + 1
  /\ UNCHANGED <<n, skipping, macros, scope, out>>

\* namespace N {
OpenNamespace ==
  /\ InHeader /\ ~skipping
  /\ Cur.kind = "namespace"
  /\ scope' = Append(scope, Cur.arg)
  /\ pc' = pc + 1
  /\ UNCHANGED <<n, skipping, macros, stdHeaders, out>>

\* class C;  declared in the innermost open namespace
DeclareClass ==
  /\ InHeader /\ ~skipping
  /\ Cur.kind = "class"
  /\ out' = Append(out, [kind     |-> "class",
                         name     |-> Append(scope, Cur.arg.name),
                         complete |-> Cur.arg.complete])
  /\ pc' = pc + 1
  /\ UNCHANGED <<n, skipping, macros, stdHeaders, scope>>

\* }
CloseNamespace ==
  /\ InHeader /\ ~skipping
  /\ Cur.kind = "close"
  /\ Len(scope) > 0
  /\ scope' = SubSeq(scope, 1, Len(scope) - 1)
  /\ pc' = pc + 1
  /\ UNCHANGED <<n, skipping, macros, stdHeaders, out>>

\* a function prototype
DeclareFunction ==
  /\ InHeader /\ ~skipping
  /\ Cur.kind = "function"
  /\ out' = Append(out, [kind     |-> "function",
                         name     |-> Append(scope, Cur.arg.name),
                         linkage  |-> Cur.arg.linkage,
                         ret      |-> Cur.arg.ret,
                         params   |-> Cur.arg.params,
                         body     |-> Cur.arg.body])
  /\ pc' = pc + 1
  /\ UNCHANGED <<n, skipping, macros, stdHeaders, scope>>

BlankLine ==
  /\ InHeader /\ ~skipping
  /\ Cur.kind = "blank"
  /\ pc' = pc + 1
  /\ UNCHANGED <<n, skipping, macros, stdHeaders, scope, out>>

\* Inside a skipped group every line but the closing #endif is discarded.
SkipLine ==
  /\ InHeader /\ skipping
  /\ Cur.kind # "endif"
  /\ pc' = pc + 1
  /\ UNCHANGED <<n, skipping, macros, stdHeaders, scope, out>>

\* #endif closes the group, read or skipped.
Endif ==
  /\ InHeader
  /\ Cur.kind = "endif"
  /\ skipping' = FALSE
  /\ pc' = pc + 1
  /\ UNCHANGED <<n, macros, stdHeaders, scope, out>>

\* End of paper.h: reading resumes in the including file.
EndOfFile ==
  /\ pc = Len(Header) + 1
  /\ pc' = 0
  /\ UNCHANGED <<n, skipping, macros, stdHeaders, scope, out>>

Next ==
  \/ IncludePaperH
  \/ Ifndef
  \/ Define
  \/ IncludeStd
  \/ OpenNamespace
  \/ DeclareClass
  \/ CloseNamespace
  \/ DeclareFunction
  \/ BlankLine
  \/ SkipLine
  \/ Endif
  \/ EndOfFile

Spec == Init /\ [][Next]_vars

----------------------------------------------------------------------------
\* Positions of the function and class declarations seen so far.
FunctionIdx == {i \in DOMAIN out : out[i].kind = "function"}

ClassIdx == {i \in DOMAIN out : out[i].kind = "class"}

InclusionDone == pc = 0 /\ n >= 1

\* C1: every function declaration the translation unit holds is `paper`, at
\* global scope with C linkage, taking (int, std::list<RDKit::ROMol*>&) and
\* returning float**; there is never more than one such declaration, and
\* once an inclusion is complete there is exactly one.
C1_SoleCallable ==
  /\ \A i \in FunctionIdx :
       /\ out[i].name = <<"paper">>
       /\ out[i].linkage = "C"
       /\ out[i].ret = "float**"
       /\ Len(out[i].params) = 2
       /\ out[i].params[1].type = "int"
       /\ out[i].params[2].type = "std::list<RDKit::ROMol*>&"
  /\ Cardinality(FunctionIdx) <= 1
  /\ InclusionDone => Cardinality(FunctionIdx) = 1

C1_Witness ==
  /\ InclusionDone
  /\ \E i \in FunctionIdx : out[i].name = <<"paper">>

\* C4: RDKit::ROMol is only ever declared incomplete, and each function
\* parameter that mentions a class reaches it through at least one pointer
\* level and is preceded by a declaration of that class.
C4_OpaqueROMol ==
  /\ \A j \in ClassIdx : ~out[j].complete
  /\ \A i \in FunctionIdx :
       \A k \in DOMAIN out[i].params :
         LET p == out[i].params[k] IN
           p.class # <<>> =>
             /\ p.indirection >= 1
             /\ \E j \in ClassIdx : j < i /\ out[j].name = p.class

C4_Witness ==
  \E i \in FunctionIdx, j \in ClassIdx :
    /\ j < i
    /\ out[j].name = <<"RDKit", "ROMol">>
    /\ \E k \in DOMAIN out[i].params : out[i].params[k].class = out[j].name

\* C5: once one inclusion of paper.h is complete PAPER_H is defined and the
\* declarations are present, and from then on no step of any later inclusion
\* changes the macros, the standard headers pulled in or the declarations.
C5_IncludeIdempotent ==
  /\ [](InclusionDone => "PAPER_H" \in macros /\ Len(out) > 0)
  /\ [][(n >= 2 \/ InclusionDone)
          => UNCHANGED <<macros, stdHeaders, out>>]_vars

C5_Witness ==
  /\ pc = 0
  /\ n >= 2
  /\ "PAPER_H" \in macros
  /\ Len(out) = 2

====
